---- MODULE Spec2Model ----
(***************************************************************************)
(* Instance registry and port allocation of the multi-instance manager     *)
(* (InstanceManager in src/commands/instances/instance-manager.ts, whose   *)
(* text is carried by IMPLEMENTATION_COMPLETE.md, and instance-types.ts).  *)
(* One action per public operation; every action is the whole call.        *)
(***************************************************************************)
EXTENDS Integers, Sequences, FiniteSets, TLC

VARIABLES
    registryFile,   \* "missing" | "json" | "corrupt": <baseDir>/registry.json
    registry,       \* the Registry held by registry.json (when it exists)
    fs,             \* per instance name: what exists under instances/<name>
    containers,     \* running gateway containers: [name, gatewayPort]
    now,            \* the clock behind createdAt
    last,           \* outcome of the most recent call
    autoNames,      \* history: registered names whose ports were auto-allocated
    destroyed,      \* history: a destroy has got past its lookup
    trail,          \* history: progress through create(a); destroy(a); create(b)
    highWater,      \* history: the most instances registered at the same time
    procs           \* per process running create() beside another: its position

vars ==
    <<registryFile, registry, fs, containers, now, last,
      autoNames, destroyed, trail, highWater, procs>>

(***************************************************************************)
(* Program constants                                                       *)
(***************************************************************************)
INSTANCES_BASE_PORT == 18800
\* The spacing of the version before: 18800, 18810, 18820, ...
FormerPortStep == 10
INSTANCES_PORT_STEP == 120
maxAttempts == 1000
MaxNameLength == 32
MinCustomPort == 1024
MaxCustomPort == 65534
MaxPort == 65535

(***************************************************************************)
(* Bounds of the model                                                     *)
(***************************************************************************)
MaxTime == 2        \* creates that reach the construction of the record
MaxNulls == 1       \* null entries of the pool up to which a destroy of a
                    \* name that is no key of the registry is explored

(***************************************************************************)
(* Names. A name is a string; Chars gives the characters of the strings    *)
(* that the model passes as names.                                         *)
(***************************************************************************)
NameEmpty == ""
NameA == "a"
Name32 == "aaaaaaaaaaaaaaaaaaaaaaaaaaaaaaaa"
Name33 == "aaaaaaaaaaaaaaaaaaaaaaaaaaaaaaaaa"
NameShell == "a;rm"
NameLongBad == "1aaaaaaaaaaaaaaaaaaaaaaaaaaaaaaaaa"
NameCtor == "constructor"

A8 == <<"a", "a", "a", "a", "a", "a", "a", "a">>

Chars(name) ==
    CASE name = NameEmpty -> <<>>
      [] name = NameA -> <<"a">>
      [] name = Name32 -> A8 \o A8 \o A8 \o A8
      [] name = Name33 -> A8 \o A8 \o A8 \o A8 \o <<"a">>
      [] name = NameShell -> <<"a", ";", "r", "m">>
      [] name = NameLongBad -> <<"1">> \o A8 \o A8 \o A8 \o A8 \o <<"a">>
      [] name = NameCtor -> <<"c", "o", "n", "s", "t", "r", "u", "c", "t", "o", "r">>

\* Names the callers pass; DirNames are those that get past validateName.
NameInputs ==
    {NameEmpty, NameA, Name32, Name33, NameShell, NameLongBad, NameCtor}
DirNames == {NameA, Name32}
CreateNames == {NameEmpty, NameA, Name32, NameShell, NameCtor}

Letters ==
    {"a", "b", "c", "d", "e", "f", "g", "h", "i", "j", "k", "l", "m", "n",
     "o", "p", "q", "r", "s", "t", "u", "v", "w", "x", "y", "z",
     "A", "B", "C", "D", "E", "F", "G", "H", "I", "J", "K", "L", "M", "N",
     "O", "P", "Q", "R", "S", "T", "U", "V", "W", "X", "Y", "Z"}
Digits == {"0", "1", "2", "3", "4", "5", "6", "7", "8", "9"}
NameChars == Letters \cup Digits \cup {"_", "-"}

\* /^[a-zA-Z][a-zA-Z0-9_-]*$/.test(name)
NameRegexTest(name) ==
    LET chars == Chars(name)
    IN  /\ Len(chars) >= 1
        /\ chars[1] \in Letters
        /\ \A i \in 2..Len(chars) : chars[i] \in NameChars

\* name.length
Length(name) == Len(Chars(name))

\* Property names every object parsed from JSON inherits from Object.prototype.
ObjectPrototypeKeys ==
    {"constructor", "toString", "toLocaleString", "valueOf", "hasOwnProperty",
     "isPrototypeOf", "propertyIsEnumerable", "__proto__", "__defineGetter__",
     "__defineSetter__", "__lookupGetter__", "__lookupSetter__"}

(***************************************************************************)
(* Registry values                                                         *)
(***************************************************************************)
\* An offset read back as JSON null (JSON.stringify writes NaN as null);
\* arithmetic on it takes it as 0.
NullOffset == -100000
\* The NaN of Math.floor((undefined - 18800) / 120), in memory only.
NaNOffset == -100001
Num(o) == IF o = NullOffset THEN 0 ELSE o
Nulls(offsets) == Cardinality({i \in 1..Len(offsets) : offsets[i] = NullOffset})

NoInstances == [n \in {} |-> 0]

\* { instances: {}, nextPortOffset: 0 }: availableOffsets is absent.
emptyRegistry ==
    [instances |-> NoInstances, nextPortOffset |-> 0,
     hasAvailableOffsets |-> FALSE, availableOffsets |-> <<>>]

\* An initRegistry() that writes the default whatever it finds.
initRegistryOverwriting(file, reg) == emptyRegistry

\* initRegistry(): the document is written only when it does not exist.
initRegistry(file, reg) == IF file = "missing" THEN emptyRegistry ELSE reg

\* The document after initRegistry(): created when missing, else untouched.
persisted(file) == IF file = "missing" THEN "json" ELSE file

\* A parser that takes any document.
parsesAnything(file) == TRUE

\* JSON.parse(content) throws a SyntaxError on a document that is not JSON.
ErrCorrupt == "Unexpected token in JSON"
parses(file) == file # "corrupt"

\* readRegistry(): initRegistry(), then parse the document.
readRegistry(file, reg) == initRegistry(file, reg)

\* writeRegistry(): the document JSON.stringify leaves, as JSON.parse gives it
\* back. Numbers, strings and arrays come back as they were; NaN is written
\* as null; a property that was never set stays absent.
writeRegistry(reg) ==
    [reg EXCEPT !.availableOffsets =
        [i \in DOMAIN @ |-> IF @[i] = NaNOffset THEN NullOffset ELSE @[i]]]

\* name in registry.instances: own keys and inherited ones.
InOperator(name, instances) ==
    name \in DOMAIN instances \/ name \in ObjectPrototypeKeys

\* registry.instances[name] is truthy: an own record or an inherited member.
Truthy(name, instances) ==
    name \in DOMAIN instances \/ name \in ObjectPrototypeKeys

instanceExists(name, file, reg) ==
    InOperator(name, readRegistry(file, reg).instances)

(***************************************************************************)
(* validateName                                                            *)
(***************************************************************************)
ErrRequired == "Name is required"
ErrSyntax ==
    "Name must start with a letter and contain only letters, numbers, dashes, underscores"
ErrLength == "Name must be 32 characters or less"
ErrExists == "Instance '<name>' already exists"

Invalid(msg, subject) == [valid |-> FALSE, error |-> msg, subject |-> subject]
Valid == [valid |-> TRUE, error |-> "", subject |-> ""]

\* validateName with the length rule ahead of the syntax rule.
validateNameLengthFirst(name, file, reg) ==
    IF name = "" THEN Invalid(ErrRequired, "")
    ELSE IF Length(name) > MaxNameLength THEN Invalid(ErrLength, "")
    ELSE IF ~NameRegexTest(name) THEN Invalid(ErrSyntax, "")
    ELSE IF instanceExists(name, file, reg) THEN Invalid(ErrExists, name)
    ELSE Valid

validateName(name, file, reg) ==
    IF name = "" THEN Invalid(ErrRequired, "")
    ELSE IF ~NameRegexTest(name) THEN Invalid(ErrSyntax, "")
    ELSE IF Length(name) > MaxNameLength THEN Invalid(ErrLength, "")
    ELSE IF ~parses(file) THEN Invalid(ErrCorrupt, "")
    ELSE IF instanceExists(name, file, reg) THEN Invalid(ErrExists, name)
    ELSE Valid

\* validateName reads the registry (and so initialises it) only when the
\* first three rules pass.
validateNameReads(name) ==
    name # "" /\ NameRegexTest(name) /\ Length(name) <= MaxNameLength

(***************************************************************************)
(* Port allocation                                                         *)
(***************************************************************************)
\* Array.prototype.sort((a, b) => a - b): stable, ascending by number.
RECURSIVE InsertSorted(_, _)
InsertSorted(s, x) ==
    IF s = <<>> THEN <<x>>
    ELSE IF Num(Head(s)) <= Num(x) THEN <<Head(s)>> \o InsertSorted(Tail(s), x)
    ELSE <<x>> \o s

RECURSIVE SortAscending(_)
SortAscending(s) ==
    IF s = <<>> THEN <<>>
    ELSE InsertSorted(SortAscending(SubSeq(s, 1, Len(s) - 1)), s[Len(s)])

\* if (!registry.availableOffsets) registry.availableOffsets = [];
\* registry.availableOffsets.push(offset); registry.availableOffsets.sort(...)
pushOffset(reg, offset) ==
    [reg EXCEPT !.hasAvailableOffsets = TRUE,
                !.availableOffsets = SortAscending(Append(@, offset))]

\* Ports a transient listener on 127.0.0.1 cannot bind: those published by
\* the running containers and those held by other processes (external).
Listening(external) ==
    external \cup UNION {{c.gatewayPort, c.gatewayPort + 1} : c \in containers}

\* A probe that finds every port free.
isPortAvailableAlways(port, busy) == TRUE

isPortAvailable(port, busy) == port \notin busy

\* A pass that hands out the watermark's offset and leaves the watermark.
allocateAttemptNoAdvance(s, busy) ==
    [s EXCEPT !.done = TRUE, !.outcome = "ok", !.written = TRUE,
              !.gatewayPort = INSTANCES_BASE_PORT +
                              s.registry.nextPortOffset * INSTANCES_PORT_STEP,
              !.attempts = @ + 1, !.tried = @ \cup {s.registry.nextPortOffset},
              !.probes = @ + 2]

\* A pass that gives up on the first pair that is not free.
allocateAttemptGivingUp(s, busy) ==
    [s EXCEPT !.done = TRUE, !.outcome = "exhausted", !.attempts = @ + 1,
              !.probes = @ + 2]

\* A pass that probes before it looks at the range, and returns the offset.
allocateAttemptProbingFirst(s, busy) ==
    [s EXCEPT !.done = TRUE, !.outcome = "range", !.attempts = @ + 1,
              !.probes = @ + 2,
              !.registry = [@ EXCEPT !.hasAvailableOffsets = TRUE,
                                     !.availableOffsets =
                                         Append(@, s.registry.nextPortOffset)]]

\* One pass of the for loop of allocatePort; s.done once it has returned or thrown.
allocateAttempt(s, busy) ==
    IF s.done THEN s
    ELSE
      LET reg == s.registry
          reuse == reg.hasAvailableOffsets /\ Len(reg.availableOffsets) > 0
          offset == IF reuse THEN Head(reg.availableOffsets) ELSE reg.nextPortOffset
          taken == IF reuse
                   THEN [reg EXCEPT !.availableOffsets = Tail(@)]
                   ELSE [reg EXCEPT !.nextPortOffset = @ + 1]
          gatewayPort == INSTANCES_BASE_PORT + Num(offset) * INSTANCES_PORT_STEP
          bridgePort == gatewayPort + 1
      IN  IF gatewayPort > MaxPort \/ bridgePort > MaxPort
          THEN [s EXCEPT !.done = TRUE, !.outcome = "range", !.registry = taken,
                         !.attempts = @ + 1, !.tried = @ \cup {offset}]
          ELSE IF isPortAvailable(gatewayPort, busy) /\ isPortAvailable(bridgePort, busy)
          THEN [s EXCEPT !.done = TRUE, !.outcome = "ok", !.registry = taken,
                         !.gatewayPort = gatewayPort, !.bridgePort = bridgePort,
                         !.written = TRUE,
                         !.attempts = @ + 1, !.tried = @ \cup {offset},
                         !.probes = @ + 2]
          ELSE [s EXCEPT !.registry = pushOffset(taken, offset),
                         !.attempts = @ + 1, !.tried = @ \cup {offset},
                         !.probes = @ + 2]

\* n passes of the loop; a return or a throw (s.done) ends it. A pass reads
\* nothing but the registry it holds and the probes: a pass that fails and
\* leaves the registry as it found it is repeated as such by every pass after
\* it, so the remaining passes are counted, not evaluated. The other passes
\* are split in halves to keep the evaluation shallow.
RECURSIVE allocateLoop(_, _, _)
allocateLoop(s, n, busy) ==
    IF n = 0 \/ s.done THEN s
    ELSE
      LET t == allocateAttempt(s, busy)
          m == n - 1
      IN  IF t.done \/ m = 0 THEN t
          ELSE IF t.registry = s.registry
          THEN [t EXCEPT !.attempts = s.attempts + n, !.probes = s.probes + 2 * n]
          ELSE LET half == allocateLoop(t, m \div 2, busy)
               IN  IF half.done THEN half
                   ELSE allocateLoop(half, m - (m \div 2), busy)

\* allocatePort(): outcome "ok" (registry written), "range" or "exhausted"
\* (both thrown, nothing written).
allocatePort(file, reg, busy) ==
    LET start == [done |-> FALSE, outcome |-> "exhausted",
                  registry |-> readRegistry(file, reg), gatewayPort |-> 0,
                  bridgePort |-> 0,
                  written |-> FALSE, attempts |-> 0, tried |-> {}, probes |-> 0]
    IN  allocateLoop(start, maxAttempts, busy)

(***************************************************************************)
(* Inputs                                                                  *)
(***************************************************************************)
\* options.port: absent, or the integer the caller passes.
NoPortOption == [hasPort |-> FALSE, port |-> 0]
PortInputs == {0, 1023, 18801, 18920, 65535}
PortOptions == {NoPortOption} \cup {[hasPort |-> TRUE, port |-> p] : p \in PortInputs}

\* if (port): undefined and 0 are falsy.
portGiven(opt) == opt.hasPort /\ opt.port # 0

\* Where a filesystem call of create may throw (ENOSPC, EACCES, ...).
Faults == {"none", "mkdirConfig", "writeCompose", "writeEnv", "chmodEnv"}

\* Ports that processes other than the instances may hold during a call.
ExternalPorts == {18800}

(***************************************************************************)
(* Instance directories                                                    *)
(***************************************************************************)
AbsentDir == [config |-> FALSE, workspace |-> FALSE, compose |-> FALSE, env |-> "absent"]

dirExists(d) == d.config \/ d.workspace \/ d.compose \/ d.env # "absent"

\* getInstanceDir(name)
getInstanceDir(name) == <<"instances", name>>

\* The filesystem calls of create, in order, up to the one that throws.
materialize(d, fault) ==
    LET d1 == [d EXCEPT !.config = TRUE]
        d2 == [d1 EXCEPT !.workspace = TRUE]
        d3 == [d2 EXCEPT !.compose = TRUE]
        d4 == [d3 EXCEPT !.env = IF @ = "absent" THEN "default" ELSE @]
        d5 == [d4 EXCEPT !.env = "0600"]
    IN  CASE fault = "mkdirConfig" -> [dir |-> d, failed |-> TRUE]
          [] fault = "mkdirWorkspace" -> [dir |-> d1, failed |-> TRUE]
          [] fault = "writeCompose" -> [dir |-> d2, failed |-> TRUE]
          [] fault = "writeEnv" -> [dir |-> d3, failed |-> TRUE]
          [] fault = "chmodEnv" -> [dir |-> d4, failed |-> TRUE]
          [] OTHER -> [dir |-> d5, failed |-> FALSE]

(***************************************************************************)
(* create                                                                  *)
(***************************************************************************)
ErrPortRange == "Port must be between 1024 and 65534"
ErrPortInUse == "Port <port> or <port + 1> is already in use"
ErrRangeExceeded == "Port allocation exceeded valid range"
ErrExhausted == "Could not find available ports after 1000 attempts"
ErrFilesystem == "filesystem error"
ErrNotFound == "Instance '<name>' not found"
ErrImage == "Docker image 'openclaw:local' not found"
ErrRuntime == "docker compose failed"

\* A registration that stamps every record with the time of the new one.
registerRestamping(reg, instance) ==
    [reg EXCEPT !.instances =
        [n \in DOMAIN @ \cup {instance.name} |->
            IF n = instance.name THEN instance
            ELSE [@[n] EXCEPT !.createdAt = instance.createdAt]]]

\* registry.instances[name] = instance
register(reg, instance) ==
    [reg EXCEPT !.instances =
        [n \in DOMAIN @ \cup {instance.name} |->
            IF n = instance.name THEN instance ELSE @[n]]]

\* A failure that leaves a record behind in the registry.
createFailedRegistered(error, file, reg, dir, time, attempts, tried) ==
    [ok |-> FALSE, error |-> error, registryFile |-> file,
     registry |-> [reg EXCEPT !.instances =
        [n \in DOMAIN @ \cup {Name33} |->
            IF n = Name33
            THEN [name |-> Name33, gatewayPort |-> 0, bridgePort |-> 1,
                  configDir |-> getInstanceDir(Name33), createdAt |-> time]
            ELSE @[n]]],
     dir |-> dir, now |-> time, gatewayPort |-> 0, auto |-> FALSE,
     attempts |-> attempts, tried |-> tried]

\* A failure that has taken an offset from the watermark.
createFailedLate(error, file, reg, dir, time, attempts, tried) ==
    [ok |-> FALSE, error |-> error, registryFile |-> file,
     registry |-> [reg EXCEPT !.nextPortOffset = @ + 1],
     dir |-> dir, now |-> time, gatewayPort |-> 0, auto |-> FALSE,
     attempts |-> attempts, tried |-> tried]

createFailed(error, file, reg, dir, time, attempts, tried) ==
    [ok |-> FALSE, error |-> error, registryFile |-> file, registry |-> reg,
     dir |-> dir, now |-> time, gatewayPort |-> 0, auto |-> FALSE,
     attempts |-> attempts, tried |-> tried]

\* A custom port taken for both the gateway and the bridge.
customPortsShared(port) == [gatewayPort |-> port, bridgePort |-> port]

\* gatewayPort = port; bridgePort = port + 1;
customPorts(port) == [gatewayPort |-> port, bridgePort |-> port + 1]

\* create(options) as a function of what it reads: the outcome and what it
\* leaves in the registry document, the instance directory and the clock.
\* alloc is what allocatePort() answers when create comes to call it.
create(name, opt, fault, file, reg, dir, busy, time, alloc) ==
    LET validation == validateName(name, file, reg)
        file1 == IF validateNameReads(name) THEN persisted(file) ELSE file
        reg1 == IF validateNameReads(name) THEN readRegistry(file, reg) ELSE reg
    IN
    IF ~validation.valid THEN createFailed(validation.error, file1, reg1, dir, time, 0, 0)
    ELSE IF portGiven(opt) /\ (opt.port < MinCustomPort \/ opt.port > MaxCustomPort)
    THEN createFailed(ErrPortRange, file1, reg1, dir, time, 0, 0)
    ELSE IF portGiven(opt) /\ ~(isPortAvailable(opt.port, busy) /\ isPortAvailable(opt.port + 1, busy))
    THEN createFailed(ErrPortInUse, file1, reg1, dir, time, 0, 0)
    ELSE
      LET tried == Cardinality(alloc.tried)
      IN
      IF ~portGiven(opt) /\ alloc.outcome = "range"
      THEN createFailed(ErrRangeExceeded, file1, reg1, dir, time, alloc.attempts, tried)
      ELSE IF ~portGiven(opt) /\ alloc.outcome = "exhausted"
      THEN createFailed(ErrExhausted, file1, reg1, dir, time, alloc.attempts, tried)
      ELSE
        LET gatewayPort == IF portGiven(opt) THEN customPorts(opt.port).gatewayPort
                           ELSE alloc.gatewayPort
            bridgePort == IF portGiven(opt) THEN customPorts(opt.port).bridgePort
                          ELSE alloc.bridgePort
            reg2 == IF portGiven(opt) THEN reg1 ELSE alloc.registry
            instance == [name |-> name, gatewayPort |-> gatewayPort,
                         bridgePort |-> bridgePort,
                         configDir |-> getInstanceDir(name),
                         createdAt |-> time]
            files == materialize(dir, fault)
            attempts == IF portGiven(opt) THEN 0 ELSE alloc.attempts
            offsets == IF portGiven(opt) THEN 0 ELSE tried
        IN
        IF files.failed
        THEN createFailed(ErrFilesystem, file1, reg2, files.dir, time + 1, attempts, offsets)
        ELSE [ok |-> TRUE, error |-> "", registryFile |-> file1,
              registry |-> register(reg2, instance), dir |-> files.dir,
              now |-> time + 1, gatewayPort |-> gatewayPort,
              auto |-> ~portGiven(opt), attempts |-> attempts, tried |-> offsets]

\* A fault is an input of the calls that get as far as the filesystem.
reachesFiles(name, opt, file, reg, busy, alloc) ==
    create(name, opt, "none", file, reg, AbsentDir, busy, 0, alloc).ok

FaultsFor(name, opt, busy, alloc) ==
    IF reachesFiles(name, opt, registryFile, registry, busy, alloc)
    THEN Faults ELSE {"none"}

dirOf(name) == IF name \in DirNames THEN fs[name] ELSE AbsentDir

\* What the last call answered, with what it was given: opt is the port
\* option a create came to read, bound whether a port it asked to probe for
\* that option was held, probes the number of probes of its allocator,
\* keepData the option of a destroy that found its instance, down whether
\* its teardown command succeeded, docker whether a status query could reach
\* the runtime, statuses the name and status of each instance it returned.
Outcome(op, name, ok, error, gatewayPort, auto, attempts, tried) ==
    [op |-> op, name |-> name, ok |-> ok, error |-> error,
     gatewayPort |-> gatewayPort, auto |-> auto, attempts |-> attempts,
     tried |-> tried, opt |-> NoPortOption, bound |-> FALSE, probes |-> 0,
     keepData |-> FALSE, down |-> FALSE, docker |-> TRUE, statuses |-> {}]

\* A process that has not called create() yet. read is the Registry its
\* allocatePort() read, local the one its registration read.
Procs == {1, 2}
Idle ==
    [pc |-> "idle", name |-> "", opt |-> NoPortOption, read |-> emptyRegistry,
     local |-> emptyRegistry, gatewayPort |-> 0, bridgePort |-> 0,
     createdAt |-> 0, ok |-> FALSE, error |-> ""]
NoProcs == [p \in Procs |-> Idle]

NoTrail == [stage |-> "none", name |-> "", gatewayPort |-> 0]

Create(name, opt, fault, busy, alloc) ==
    \E r \in {create(name, opt, fault, registryFile, registry, dirOf(name),
                     busy, now, alloc)} :
        /\ registryFile' = r.registryFile
        /\ registry' = r.registry
        /\ fs' = IF name \in DirNames THEN [fs EXCEPT ![name] = r.dir] ELSE fs
        /\ now' = r.now
        /\ last' = LET read == validateName(name, registryFile, registry).valid
                   IN  [Outcome("create", name, r.ok, r.error, r.gatewayPort,
                                r.auto, r.attempts, r.tried)
                        EXCEPT !.opt = IF read THEN opt ELSE NoPortOption,
                               !.bound = /\ read
                                         /\ opt.hasPort
                                         /\ {opt.port, opt.port + 1} \cap busy # {},
                               !.probes = IF r.attempts > 0 THEN alloc.probes ELSE 0]
        /\ autoNames' = IF r.ok /\ r.auto THEN autoNames \cup {name} ELSE autoNames
        /\ trail' = IF r.ok /\ r.auto
                    THEN IF trail.stage = "cd"
                         THEN [trail EXCEPT !.stage = "cdc"]
                         ELSE [stage |-> "c", name |-> name, gatewayPort |-> r.gatewayPort]
                    ELSE NoTrail
        /\ highWater' = IF Cardinality(DOMAIN r.registry.instances) > highWater
                        THEN Cardinality(DOMAIN r.registry.instances)
                        ELSE highWater
        /\ UNCHANGED <<containers, destroyed, procs>>

ValidateName(name) ==
    \E r \in {validateName(name, registryFile, registry)} :
        /\ registryFile' = IF validateNameReads(name) THEN persisted(registryFile)
                           ELSE registryFile
        /\ registry' = IF validateNameReads(name)
                       THEN readRegistry(registryFile, registry) ELSE registry
        /\ last' = Outcome("validateName", name, r.valid, r.error, 0, FALSE, 0, 0)
        /\ trail' = NoTrail
        /\ UNCHANGED <<fs, containers, now, autoNames, destroyed, highWater, procs>>

(***************************************************************************)
(* destroy                                                                 *)
(***************************************************************************)
\* delete registry.instances[name]
unregister(reg, name) ==
    [reg EXCEPT !.instances = [n \in DOMAIN @ \ {name} |-> @[n]]]

\* Math.floor((instance.gatewayPort - INSTANCES_BASE_PORT) / INSTANCES_PORT_STEP);
\* an inherited member has no gatewayPort: the result is NaN.
portOffsetOf(name, instances) ==
    IF name \in DOMAIN instances
    THEN (instances[name].gatewayPort - INSTANCES_BASE_PORT) \div INSTANCES_PORT_STEP
    ELSE NaNOffset

\* A destroy that forgets the offset of the instance.
reclaimNothing(reg, name, portOffset) == reg

\* push(portOffset) and sort(): the comparator answers NaN for a NaN operand,
\* which the sort takes for equal and so leaves the pushed NaN at the end.
\* reg is the Registry after the delete.
reclaim(reg, name, portOffset) ==
    IF portOffset # NaNOffset
    THEN pushOffset(reg, portOffset)
    ELSE [reg EXCEPT !.hasAvailableOffsets = TRUE,
                     !.availableOffsets = Append(SortAscending(@), portOffset)]

\* docker compose down / stop act on the project when the directory holds
\* its manifest and the command itself succeeds.
composeReaches(dir, commandOk) == commandOk /\ dir.compose

\* A teardown whose failure reaches the caller.
composeDownSurfacing(dir, commandOk) ==
    [down |-> composeReaches(dir, commandOk),
     error |-> IF composeReaches(dir, commandOk) THEN "" ELSE ErrRuntime]

\* try { execSync("docker compose down -v --remove-orphans", ...) } catch {}:
\* whether the containers are gone, and the error that leaves the block.
composeDown(dir, commandOk) ==
    [down |-> composeReaches(dir, commandOk), error |-> ""]

\* A removal that does not look at keepData.
removeDataAlways(dir, keepData) == AbsentDir

\* if (!keepData && fs.existsSync(instanceDir)) fs.rmSync(instanceDir, ...)
removeData(dir, keepData) ==
    IF ~keepData /\ dirExists(dir) THEN AbsentDir ELSE dir

\* The Registry destroy hands to writeRegistry().
destroyWrites(name, file, reg) ==
    LET reg0 == readRegistry(file, reg)
    IN  reclaim(unregister(reg0, name), name, portOffsetOf(name, reg0.instances))

\* rmOk: fs.rmSync does not throw (it throws on EACCES, EBUSY, ...; what it
\* had removed by then is not modelled: the directory is left as it was).
destroy(name, keepData, downOk, rmOk, file, reg, dir) ==
    LET reg0 == readRegistry(file, reg)
    IN  IF ~parses(file)
        THEN [ok |-> FALSE, error |-> ErrCorrupt, registry |-> reg0, dir |-> dir,
              down |-> FALSE]
        ELSE IF ~Truthy(name, reg0.instances)
        THEN [ok |-> FALSE, error |-> ErrNotFound, registry |-> reg0, dir |-> dir,
              down |-> FALSE]
        ELSE
          LET teardown == composeDown(dir, downOk)
              dir1 == removeData(dir, keepData)
              reg1 == writeRegistry(destroyWrites(name, file, reg))
          IN  IF teardown.error # ""
              THEN [ok |-> FALSE, error |-> teardown.error, registry |-> reg0,
                    dir |-> dir, down |-> teardown.down]
              ELSE IF dir1 # dir /\ ~rmOk
              THEN [ok |-> FALSE, error |-> ErrFilesystem, registry |-> reg0,
                    dir |-> dir, down |-> teardown.down]
              ELSE [ok |-> TRUE, error |-> "", registry |-> reg1, dir |-> dir1,
                    down |-> teardown.down]

Destroy(name, keepData, downOk, rmOk) ==
    \E r \in {destroy(name, keepData, downOk, rmOk, registryFile, registry,
                       dirOf(name))} :
        /\ name \notin DOMAIN registry.instances =>
               Nulls(registry.availableOffsets) < MaxNulls
        /\ registryFile' = persisted(registryFile)
        /\ registry' = r.registry
        /\ fs' = IF name \in DirNames THEN [fs EXCEPT ![name] = r.dir] ELSE fs
        /\ containers' = IF r.down THEN {c \in containers : c.name # name}
                         ELSE containers
        /\ last' = [Outcome("destroy", name, r.ok, r.error, 0, FALSE, 0, 0)
                    EXCEPT !.keepData = keepData /\ r.error \notin {ErrNotFound, ErrCorrupt},
                           !.down = r.down]
        /\ autoNames' = IF r.ok THEN autoNames \ {name} ELSE autoNames
        /\ destroyed' = (destroyed \/ r.ok)
        /\ trail' = IF r.ok /\ trail.stage = "c" /\ trail.name = name
                    THEN [trail EXCEPT !.stage = "cd"]
                    ELSE NoTrail
        /\ UNCHANGED <<now, highWater, procs>>

(***************************************************************************)
(* start, stop                                                             *)
(***************************************************************************)
\* docker compose up -d gateway publishes the two ports of the .env file.
start(name, imageOk, upOk, file, reg, dir, running, others) ==
    LET reg0 == readRegistry(file, reg)
    IN  IF ~parses(file)
        THEN [ok |-> FALSE, error |-> ErrCorrupt, containers |-> running]
        ELSE IF ~Truthy(name, reg0.instances)
        THEN [ok |-> FALSE, error |-> ErrNotFound, containers |-> running]
        ELSE IF ~imageOk
        THEN [ok |-> FALSE, error |-> ErrImage, containers |-> running]
        ELSE IF /\ composeReaches(dir, upOk)
                /\ dir.env # "absent"
                /\ name \in DOMAIN reg0.instances
                /\ LET p == reg0.instances[name].gatewayPort
                   IN  {p, p + 1} \cap others = {}
        THEN [ok |-> TRUE, error |-> "",
              containers |-> {c \in running : c.name # name} \cup
                  {[name |-> name, gatewayPort |-> reg0.instances[name].gatewayPort]}]
        ELSE [ok |-> FALSE, error |-> ErrRuntime, containers |-> running]

\* Ports bound by anything but the containers of the named instance.
BoundByOthers(name, external) ==
    external \cup
    UNION {{c.gatewayPort, c.gatewayPort + 1} : c \in {d \in containers : d.name # name}}

Start(name, imageOk, upOk, external) ==
    \E r \in {start(name, imageOk, upOk, registryFile, registry, dirOf(name),
                    containers, BoundByOthers(name, external))} :
        /\ registryFile' = persisted(registryFile)
        /\ registry' = readRegistry(registryFile, registry)
        /\ containers' = r.containers
        /\ last' = Outcome("start", name, r.ok, r.error, 0, FALSE, 0, 0)
        /\ trail' = NoTrail
        /\ UNCHANGED <<fs, now, autoNames, destroyed, highWater, procs>>

stop(name, stopOk, file, reg, dir, running) ==
    LET reg0 == readRegistry(file, reg)
    IN  IF ~parses(file)
        THEN [ok |-> FALSE, error |-> ErrCorrupt, containers |-> running]
        ELSE IF ~Truthy(name, reg0.instances)
        THEN [ok |-> FALSE, error |-> ErrNotFound, containers |-> running]
        ELSE IF composeReaches(dir, stopOk)
        THEN [ok |-> TRUE, error |-> "", containers |-> {c \in running : c.name # name}]
        ELSE [ok |-> FALSE, error |-> ErrRuntime, containers |-> running]

Stop(name, stopOk) ==
    \E r \in {stop(name, stopOk, registryFile, registry, dirOf(name), containers)} :
        /\ registryFile' = persisted(registryFile)
        /\ registry' = readRegistry(registryFile, registry)
        /\ containers' = r.containers
        /\ last' = Outcome("stop", name, r.ok, r.error, 0, FALSE, 0, 0)
        /\ trail' = NoTrail
        /\ UNCHANGED <<fs, now, autoNames, destroyed, highWater, procs>>

\* Names handed to destroy, start, stop and getInstance.
LookupNames == {NameA, Name32, NameCtor}

(***************************************************************************)
(* listInstances, getInstance                                              *)
(***************************************************************************)
\* A query that reports a container the runtime could not be asked about.
isContainerRunningUnasked(name, dockerOk, running) ==
    [threw |-> FALSE, value |-> ~dockerOk \/ \E c \in running : c.name = name]

\* docker ps | grep -q inside try/catch: a docker that cannot be reached and
\* a container that is not listed both make execSync throw, and both are
\* answered with false; nothing is thrown to the caller.
isContainerRunning(name, dockerOk, running) ==
    [threw |-> FALSE,
     value |-> dockerOk /\ \E c \in running : c.name = name]

\* The try/catch of listInstances and getInstance around isContainerRunning.
statusOf(name, dockerOk, running) ==
    LET r == isContainerRunning(name, dockerOk, running)
    IN  IF r.threw THEN "unknown"
        ELSE IF r.value THEN "running" ELSE "stopped"

\* Object.entries(registry.instances): the registered names only.
listInstances(dockerOk, file, reg, running) ==
    IF ~parses(file) THEN {} ELSE
    {[name |-> n, status |-> statusOf(n, dockerOk, running)] :
        n \in DOMAIN readRegistry(file, reg).instances}

\* registry.instances[name]: null when the member is missing.
getInstance(name, dockerOk, file, reg, running) ==
    IF ~parses(file) \/ ~Truthy(name, readRegistry(file, reg).instances)
    THEN {}
    ELSE {[name |-> name, status |-> statusOf(name, dockerOk, running)]}

List(dockerOk) ==
    /\ registryFile' = persisted(registryFile)
    /\ registry' = readRegistry(registryFile, registry)
    /\ last' = [Outcome("list", "", parses(registryFile),
                        IF parses(registryFile) THEN "" ELSE ErrCorrupt,
                        0, FALSE, 0, 0)
                EXCEPT !.docker = dockerOk,
                       !.statuses = listInstances(dockerOk, registryFile,
                                                  registry, containers)]
    /\ trail' = NoTrail
    /\ UNCHANGED <<fs, containers, now, autoNames, destroyed, highWater, procs>>

Get(name, dockerOk) ==
    \E r \in {getInstance(name, dockerOk, registryFile, registry, containers)} :
        /\ registryFile' = persisted(registryFile)
        /\ registry' = readRegistry(registryFile, registry)
        /\ last' = [Outcome("get", name, r # {},
                            IF parses(registryFile) THEN "" ELSE ErrCorrupt,
                            0, FALSE, 0, 0)
                    EXCEPT !.docker = dockerOk, !.statuses = r]
        /\ trail' = NoTrail
        /\ UNCHANGED <<fs, containers, now, autoNames, destroyed, highWater, procs>>

Init ==
    /\ registryFile = "missing"
    /\ registry = emptyRegistry
    /\ fs = [n \in DirNames |-> AbsentDir]
    /\ containers = {}
    /\ now = 0
    /\ last = Outcome("none", "", TRUE, "", 0, FALSE, 0, 0)
    /\ autoNames = {}
    /\ destroyed = FALSE
    /\ trail = NoTrail
    /\ highWater = 0
    /\ procs = NoProcs

Next ==
    \/ now < MaxTime /\ \E external \in SUBSET ExternalPorts :
        \E alloc \in {allocatePort(registryFile, registry, Listening(external))} :
            \E name \in CreateNames, opt \in PortOptions :
                \E fault \in FaultsFor(name, opt, Listening(external), alloc) :
                    Create(name, opt, fault, Listening(external), alloc)
    \/ \E name \in NameInputs : ValidateName(name)
    \/ \E name \in LookupNames, keepData \in BOOLEAN, downOk \in BOOLEAN,
          rmOk \in BOOLEAN :
            Destroy(name, keepData, downOk, rmOk)
    \/ \E name \in LookupNames, imageOk \in BOOLEAN, upOk \in BOOLEAN,
          external \in SUBSET ExternalPorts :
            (imageOk \/ upOk) /\ Start(name, imageOk, upOk, external)
    \/ \E name \in LookupNames, stopOk \in BOOLEAN : Stop(name, stopOk)
    \/ \E dockerOk \in BOOLEAN : List(dockerOk)
    \/ \E name \in LookupNames, dockerOk \in BOOLEAN : Get(name, dockerOk)

Spec == Init /\ [][Next]_vars

(***************************************************************************)
(* Properties of the registry                                              *)
(***************************************************************************)
instances == registry.instances
pool == registry.availableOffsets
Registered == DOMAIN registry.instances

portsOf(n) == {instances[n].gatewayPort, instances[n].bridgePort}

\* C1: port uniqueness. In every state reached from the empty registry by
\* creates (auto-allocated or explicit port) and destroys, whatever instances
\* are running, the sets {gatewayPort, bridgePort} of two distinct registered
\* instances are disjoint.
PortUniqueness ==
    \A n, m \in Registered : n # m => portsOf(n) \cap portsOf(m) = {}

\* Two registered instances that hold a common port.
SharedPort ==
    \E n, m \in Registered : n # m /\ portsOf(n) \cap portsOf(m) # {}

\* C4: live offsets. For every registered instance the offset
\* (gatewayPort - BASE_PORT) / PORT_STEP is no member of availableOffsets and
\* is strictly less than nextPortOffset.
LiveOffsets ==
    \A n \in Registered :
        LET distance == instances[n].gatewayPort - INSTANCES_BASE_PORT
        IN  /\ \A i \in 1..Len(pool) :
                   pool[i] # NullOffset => pool[i] * INSTANCES_PORT_STEP # distance
            /\ distance < registry.nextPortOffset * INSTANCES_PORT_STEP

\* An instance whose port was auto-allocated is registered while its offset
\* waits in the pool.
LiveOffsetPooled ==
    \E n \in Registered \cap autoNames :
        \E i \in 1..Len(pool) :
            /\ pool[i] # NullOffset
            /\ pool[i] * INSTANCES_PORT_STEP =
                   instances[n].gatewayPort - INSTANCES_BASE_PORT

\* C5: reclaim pool. availableOffsets holds no value twice and no value
\* greater than or equal to nextPortOffset; destroy inserts the reclaimed
\* offset deduplicated.
ReclaimPool ==
    /\ \A i, j \in 1..Len(pool) : i # j => pool[i] # pool[j]
    /\ \A i \in 1..Len(pool) :
           pool[i] # NullOffset => pool[i] < registry.nextPortOffset

\* The pool after a destroy that found the offset it reclaims already there.
PoolHoldsDuplicate ==
    \E i, j \in 1..Len(pool) : i # j /\ pool[i] = pool[j]

\* C6: skipping busy ports. When a port of the first candidate offset is not
\* available to the probe while both ports of another offset in range are
\* free, an auto-allocating create goes on to a different offset and succeeds
\* with a free pair; it does not spend its attempts on one offset. (In every
\* state of this model some offset in range has both ports free.)
SkipsBusyPorts ==
    last.op = "create" =>
        /\ last.error # ErrExhausted
        /\ last.attempts > 1 => last.tried > 1

\* A create that gave up after the whole budget of attempts on one offset.
AttemptsOnOneOffset ==
    /\ last.op = "create"
    /\ last.error = ErrExhausted
    /\ last.attempts = maxAttempts
    /\ last.tried = 1

\* C7: validateName(name) answers valid exactly when name is not empty, starts
\* with a letter and goes on with letters, digits, dashes or underscores only,
\* has at most 32 characters and is not the name of a registered instance; no
\* well-formed name of an instance that was never created is rejected as a
\* duplicate.
ValidExactlyWhenFree ==
    last.op = "validateName" =>
        /\ last.ok <=> /\ last.name # ""
                       /\ NameRegexTest(last.name)
                       /\ Length(last.name) <= MaxNameLength
                       /\ last.name \notin Registered
        /\ last.error = ErrExists => last.name \in Registered

\* A well-formed name that is registered nowhere, rejected as a duplicate.
RejectedAsDuplicateUnregistered ==
    /\ last.op = "validateName"
    /\ last.error = ErrExists
    /\ last.name \notin Registered

\* C8: validateName reports the first rule that fails, in the order empty,
\* syntax, length, duplicate: the empty name gives 'Name is required', a name
\* that does not match gives the message that holds 'must start with a
\* letter' (ErrSyntax), a well-formed name of more than 32 characters gives
\* 'Name must be 32 characters or less', a registered name gives 'Instance
\* '<name>' already exists'; a name of exactly 32 valid characters is accepted.
FirstFailingRule ==
    last.op = "validateName" =>
        /\ last.name = "" => ~last.ok /\ last.error = ErrRequired
        /\ last.name # "" /\ ~NameRegexTest(last.name) =>
               ~last.ok /\ last.error = ErrSyntax
        /\ NameRegexTest(last.name) /\ Length(last.name) > MaxNameLength =>
               ~last.ok /\ last.error = ErrLength
        /\ last.name \in Registered => ~last.ok /\ last.error = ErrExists
        /\ /\ NameRegexTest(last.name)
           /\ Length(last.name) = MaxNameLength
           /\ last.name \notin Registered
           => last.ok /\ last.error = ""

\* A name that breaks the syntax rule and the length rule was validated.
ValidatedLongBadName ==
    /\ last.op = "validateName"
    /\ last.name = NameLongBad
    /\ last.error = ErrSyntax

\* The port of a registered instance lies on the grid of offsets.
onGrid(port) ==
    /\ port >= INSTANCES_BASE_PORT
    /\ (port - INSTANCES_BASE_PORT) % INSTANCES_PORT_STEP = 0

ReusedPort ==
    trail.stage = "cdc" =>
        /\ last.op = "create"
        /\ last.ok
        /\ last.gatewayPort = trail.gatewayPort

TakesLeastOffset ==
    /\ now' # now
    /\ last'.attempts = 1
    /\ registry.hasAvailableOffsets
    /\ pool # <<>>
    => /\ \A i \in 1..Len(pool) : Num(Head(pool)) <= Num(pool[i])
       /\ registry'.availableOffsets = Tail(pool)
       /\ registry'.nextPortOffset = registry.nextPortOffset
       /\ last'.ok =>
              last'.gatewayPort =
                  INSTANCES_BASE_PORT + Num(Head(pool)) * INSTANCES_PORT_STEP

LowestReclaimedFirst == []ReusedPort /\ [][TakesLeastOffset]_vars

\* A pool whose first entry is not its least.
PoolOutOfOrder ==
    \E i \in 1..Len(pool) : Num(Head(pool)) > Num(pool[i])

\* C9 as stated: when create fails before its final commit to the registry,
\* the name is no key of the registry afterwards.
FailedNameUnregistered ==
    last.op = "create" /\ ~last.ok => last.name \notin Registered

\* C9: no partial registration. A create that fails at any step before its
\* final commit to the registry (name validation, port validation or
\* allocation, directory creation, generation of the manifest or of the
\* secrets file) registers nothing: the registry holds the records it held
\* before the call, so the name is a key afterwards only when it was one
\* before, which is the rejection of a duplicate.
FailedCreateRegistersNothing ==
    last'.op = "create" /\ ~last'.ok => registry'.instances = registry.instances

NoPartialRegistration == [][FailedCreateRegistersNothing]_vars

\* A create has failed in its filesystem calls, after its port was allocated.
CreateFailedInFiles ==
    /\ last.op = "create"
    /\ last.error = ErrFilesystem
    /\ last.attempts = 1
    /\ last.name \notin Registered

\* C10: a create rejected for an invalid name, a duplicate name or an
\* explicit port out of range is rejected before any side effect: instances,
\* nextPortOffset and availableOffsets are as they were, and no instance
\* directory and no artifact has been created.
ValidationErrors == {ErrRequired, ErrSyntax, ErrLength, ErrExists, ErrPortRange}

RejectedWithoutEffect ==
    last'.op = "create" /\ last'.error \in ValidationErrors =>
        /\ registry'.instances = registry.instances
        /\ registry'.nextPortOffset = registry.nextPortOffset
        /\ registry'.availableOffsets = registry.availableOffsets
        /\ fs' = fs

RejectedBeforeSideEffects == [][RejectedWithoutEffect]_vars

\* A create was rejected for its port while the registry holds an instance
\* and a reclaimed offset.
RejectedForPort ==
    /\ last.op = "create"
    /\ last.error = ErrPortRange
    /\ Registered # {}
    /\ pool # <<>>

(***************************************************************************)
(* Explicit ports                                                          *)
(***************************************************************************)
outOfRange(port) == port < MinCustomPort \/ port > MaxCustomPort

\* C11: whenever the caller of create supplies a port, the range
\* [1024, 65534] is enforced: for every supplied integer p with p < 1024 or
\* p > 65534 create fails with the range error and registers no instance.
PortRangeEnforced ==
    last.op = "create" /\ last.opt.hasPort /\ outOfRange(last.opt.port) =>
        /\ ~last.ok
        /\ last.error = ErrPortRange
        /\ last.name \notin Registered

\* A create given a port below the range has registered an instance.
OutOfRangePortRegistered ==
    /\ last.op = "create"
    /\ last.opt.hasPort
    /\ outOfRange(last.opt.port)
    /\ last.ok
    /\ last.name \in Registered

\* C12: create with an explicit port p, where p or p + 1 is bound by a live
\* listener, fails with the port-in-use error and leaves the persisted
\* registry as it was.
BoundPortRefused ==
    /\ last'.op = "create"
    /\ last'.opt.hasPort
    /\ ~outOfRange(last'.opt.port)
    /\ last'.bound
    => /\ ~last'.ok
       /\ last'.error = ErrPortInUse
       /\ registry' = registry

ExplicitCreateAddsRecordOnly ==
    /\ last'.op = "create"
    /\ last'.ok
    /\ last'.opt.hasPort
    /\ now' # now
    => /\ registry'.nextPortOffset = registry.nextPortOffset
       /\ registry'.availableOffsets = registry.availableOffsets
       /\ registry'.hasAvailableOffsets = registry.hasAvailableOffsets
       /\ DOMAIN registry'.instances = Registered \cup {last'.name}
       /\ \A n \in Registered : registry'.instances[n] = instances[n]
       /\ registry'.instances[last'.name].gatewayPort = last'.opt.port

NoOffsetBookkeeping == [][ExplicitCreateAddsRecordOnly]_vars

\* A create given a port has moved the watermark and got another port.
ExplicitCreateMovedWatermark ==
    /\ last.op = "create"
    /\ last.ok
    /\ last.opt.hasPort
    /\ last.gatewayPort # last.opt.port
    /\ registry.nextPortOffset > 0

(***************************************************************************)
(* destroy                                                                 *)
(***************************************************************************)
\* The offset destroy computes for a port: floor((port - BASE) / STEP).
isOffsetOf(o, port) ==
    /\ o * INSTANCES_PORT_STEP <= port - INSTANCES_BASE_PORT
    /\ port - INSTANCES_BASE_PORT < (o + 1) * INSTANCES_PORT_STEP

count(offsets, o) == Cardinality({i \in 1..Len(offsets) : offsets[i] = o})

\* The step has unregistered instance n and put its offset into the pool.
UnregisteredAndReclaimed(n) ==
    /\ DOMAIN registry'.instances = Registered \ {n}
    /\ \A m \in Registered \ {n} : registry'.instances[m] = instances[m]
    /\ registry'.hasAvailableOffsets
    /\ registry'.nextPortOffset = registry.nextPortOffset
    /\ Len(registry'.availableOffsets) = Len(pool) + 1
    /\ \E o \in -200..400 :
           /\ isOffsetOf(o, instances[n].gatewayPort)
           /\ count(registry'.availableOffsets, o) = count(pool, o) + 1
    /\ registryFile' = "json"

\* C14: destroy on a name that was never created, or that was destroyed
\* already, fails with the not-found error and changes nothing: no field of
\* the registry and no entry of the filesystem is created, modified or
\* removed. (The registry document that every read creates when it is
\* missing, holding the empty registry, is not counted as a change.)
DestroyUnregistered ==
    last'.op = "destroy" /\ last'.name \notin Registered =>
        /\ ~last'.ok
        /\ last'.error = ErrNotFound
        /\ registry' = registry
        /\ fs' = fs

DestroyUnknownChangesNothing == [][DestroyUnregistered]_vars

\* A destroy of a name that no create ever registered has succeeded and has
\* left an entry in the pool.
DestroyedNeverCreated ==
    /\ last.op = "destroy"
    /\ last.ok
    /\ last.name = NameCtor
    /\ now = 0
    /\ pool # <<>>

\* C15: destroy of a registered instance is best-effort towards the runtime:
\* when the teardown command fails, the failure is not surfaced, and destroy
\* still removes the instance from the registry, adds its offset to
\* availableOffsets and persists the registry. (A removal of the data that
\* throws is another failure, and is surfaced.)
TeardownFailureSwallowed ==
    /\ last'.op = "destroy"
    /\ last'.name \in Registered
    /\ ~last'.down
    /\ last'.error # ErrFilesystem
    => /\ last'.ok
       /\ last'.error = ""
       /\ UnregisteredAndReclaimed(last'.name)

BestEffortTeardown == [][TeardownFailureSwallowed]_vars

\* An instance was destroyed while its container went on running.
DestroyedWhileRunning ==
    /\ last.op = "destroy"
    /\ last.ok
    /\ ~last.down
    /\ last.name \notin Registered
    /\ \E c \in containers : c.name = last.name

\* C16: destroy with keepData leaves the directory of the instance and what
\* it holds in place, and still unregisters the instance and reclaims its
\* offset; destroy without keepData removes the directory recursively, and
\* does so before the instance is unregistered (a removal that fails leaves
\* the instance registered).
KeepDataStep ==
    last'.op = "destroy" /\ last'.name \in Registered \cap DirNames =>
        /\ last'.keepData =>
               /\ last'.ok
               /\ fs'[last'.name] = fs[last'.name]
               /\ UnregisteredAndReclaimed(last'.name)
        /\ ~last'.keepData /\ last'.ok =>
               /\ fs'[last'.name] = AbsentDir
               /\ UnregisteredAndReclaimed(last'.name)
        /\ ~last'.keepData /\ last'.name \notin DOMAIN registry'.instances =>
               fs'[last'.name] = AbsentDir
        /\ last'.error = ErrFilesystem => registry' = registry

KeepDataHonoured == [][KeepDataStep]_vars

\* An instance was destroyed with keepData and its directory is still there.
DestroyedKeepingData ==
    /\ last.op = "destroy"
    /\ last.ok
    /\ last.keepData
    /\ last.name \in DirNames \ Registered
    /\ fs[last.name].env = "0600"

(***************************************************************************)
(* The allocator on the registries it can find                             *)
(***************************************************************************)
\* Watermarks around the last offset in range (389: ports 65480 and 65481),
\* and pools of reclaimed offsets, ascending as destroy leaves them.
AllocWatermarks == {0, 1, 2, 389, 390, 391}
AllocPools == {<<>>, <<0>>, <<1>>, <<389>>, <<0, 1>>, <<0, 389>>, <<1, 389>>,
               <<0, 1, 389>>}
AllocRegistries ==
    {[instances |-> NoInstances, nextPortOffset |-> n,
      hasAvailableOffsets |-> h, availableOffsets |-> p] :
        n \in AllocWatermarks, h \in BOOLEAN, p \in AllocPools}

\* Ports other processes may hold while the allocator probes.
AllocExternalPorts == {18800, 18921, 65480}

InitAlloc ==
    /\ registryFile = "json"
    /\ registry \in {r \in AllocRegistries :
                        r.availableOffsets # <<>> => r.hasAvailableOffsets}
    /\ fs = [n \in DirNames |-> AbsentDir]
    /\ containers = {}
    /\ now = 0
    /\ last = Outcome("none", "", TRUE, "", 0, FALSE, 0, 0)
    /\ autoNames = {}
    /\ destroyed = FALSE
    /\ trail = NoTrail
    /\ highWater = 0
    /\ procs = NoProcs

\* create({ name }) with no port: the call of allocatePort(), then the files
\* and the registration.
NextAlloc ==
    /\ now < MaxTime
    /\ \E external \in SUBSET AllocExternalPorts :
        \E alloc \in {allocatePort(registryFile, registry, Listening(external))} :
            \E name \in DirNames :
                Create(name, NoPortOption, "none", Listening(external), alloc)

SpecAlloc == InitAlloc /\ [][NextAlloc]_vars

\* The create of the step came to call allocatePort().
allocated == last.op = "create" /\ last.attempts > 0

\* C17: every invocation of the allocator ends, whatever the probes answer:
\* it returns a port pair, or fails with the range error, or fails with
\* AllocationExhausted after the ceiling of 1000 attempts.
AllocatorOutcomes ==
    allocated =>
        /\ last.attempts <= maxAttempts
        /\ \/ /\ last.error \in {"", ErrFilesystem}
              /\ last.gatewayPort + 1 <= MaxPort \/ last.error = ErrFilesystem
           \/ last.error = ErrRangeExceeded
           \/ last.error = ErrExhausted /\ last.attempts = maxAttempts

\* The allocator has used the whole budget with reclaimed offsets waiting.
BudgetSpent ==
    /\ allocated
    /\ last.error = ErrExhausted
    /\ last.attempts = maxAttempts
    /\ Len(pool) = 3

\* The offset allocatePort() takes first from a registry.
candidate(reg) ==
    IF reg.hasAvailableOffsets /\ reg.availableOffsets # <<>>
    THEN Head(reg.availableOffsets) ELSE reg.nextPortOffset

bridgePortOf(offset) ==
    INSTANCES_BASE_PORT + Num(offset) * INSTANCES_PORT_STEP + 1

\* C18: when a candidate offset gives bridgePort > 65535 the allocator fails
\* at once with the range error, without probing a port and without adding
\* the offset to availableOffsets.
RangeStep ==
    /\ last'.op = "create"
    /\ last'.attempts > 0
    => /\ bridgePortOf(candidate(registry)) > MaxPort =>
              /\ last'.error = ErrRangeExceeded
              /\ last'.attempts = 1
       /\ last'.error = ErrRangeExceeded =>
              /\ last'.probes = 0
              /\ registry' = registry

MaxCreates == 4

CreateAuto ==
    /\ now < MaxCreates
    /\ \E external \in SUBSET ExternalPorts :
        \E alloc \in {allocatePort(registryFile, registry, Listening(external))} :
            \E name \in DirNames :
                /\ Create(name, NoPortOption, "none", Listening(external), alloc)
                /\ last'.ok

DestroyDone ==
    \E name \in LookupNames, keepData \in BOOLEAN, downOk \in BOOLEAN :
        /\ Destroy(name, keepData, downOk, TRUE)
        /\ last'.ok

NextPure == CreateAuto \/ DestroyDone

SpecPure == Init /\ [][NextPure]_vars

\* C19: in a run of successful auto-allocating creates and successful
\* destroys, nextPortOffset never exceeds the largest number of instances
\* registered at the same time so far, however many were created in all.
BoundedPortSpace == registry.nextPortOffset <= highWater

\* More instances have been created than were ever registered together.
CreatedMoreThanHighWater ==
    /\ now = MaxCreates
    /\ highWater = 2
    /\ registry.nextPortOffset = 2
    /\ last.op = "create"
    /\ last.auto

\* C20: list() and get(name) report the status "unknown" for an instance
\* whenever the runtime cannot be reached or queried, never "running" or
\* "stopped".
UnknownWhenUnreachable ==
    /\ last.op \in {"list", "get"}
    /\ ~last.docker
    => \A s \in last.statuses : s.status = "unknown"

\* The query for a running container openclaw-<name>-gateway succeeds.
querySucceeds(name) == last.docker /\ \E c \in containers : c.name = name

\* C21: for every registered instance, list() and get(name) report "running"
\* exactly when the query for a running container named
\* openclaw-<name>-gateway succeeds, and "stopped" whenever the query throws
\* or finds no such container.
StatusFollowsQuery ==
    last.op \in {"list", "get"} =>
        \A s \in last.statuses :
            s.name \in Registered =>
                /\ s.status = "running" <=> querySucceeds(s.name)
                /\ ~querySucceeds(s.name) => s.status = "stopped"

\* get(name) has reported a started instance as running.
ReportedRunning ==
    /\ last.op = "get"
    /\ last.docker
    /\ last.statuses = {[name |-> NameA, status |-> "running"]}

\* C22: list() returns exactly one entry per instance registered in the
\* Registry, and the empty list for an empty Registry; get(name) returns
\* null exactly when name is not registered.
ProjectionsOfRegistry ==
    /\ last.op = "list" => {s.name : s \in last.statuses} = Registered
    /\ last.op = "get" => (last.statuses = {} <=> last.name \notin Registered)

\* C23: for every Registry value the operations write, writing it and
\* reading it back yields a Registry equal field for field. The step is a
\* destroy that reached writeRegistry().
RoundTripStep ==
    last'.op = "destroy" /\ last'.ok =>
        readRegistry(registryFile', registry') =
            destroyWrites(last'.name, registryFile, registry)

RegistryRoundTrip == [][RoundTripStep]_vars

\* The call recorded in l read the Registry and wrote nothing of its own.
readOnly(l) ==
    \/ l.op \in {"list", "get", "start", "stop"}
    \/ l.op = "validateName" /\ validateNameReads(l.name)

\* C24: when the registry document is missing, read returns the default
\* empty Registry and persists it, so that a following read returns the same
\* value; when the document exists, read never overwrites it.
ReadStep ==
    readOnly(last') =>
        /\ registryFile = "missing" =>
              /\ registryFile' = "json"
              /\ registry' = emptyRegistry
              /\ readRegistry(registryFile', registry') = emptyRegistry
        /\ registryFile # "missing" => UNCHANGED <<registryFile, registry>>

ReadPersistsDefaultOnly == [][ReadStep]_vars

\* A read has created the document: nothing was created or destroyed yet.
DefaultPersistedByRead ==
    /\ last.op = "list"
    /\ registryFile = "json"
    /\ registry = emptyRegistry
    /\ now = 0
    /\ ~destroyed

(***************************************************************************)
(* The operations over a registry document that does not parse             *)
(***************************************************************************)
\* The directories and containers of instances created and started before
\* the document was damaged.
FullDir == materialize(AbsentDir, "none").dir
CorruptContainers ==
    {[name |-> NameA, gatewayPort |-> 18800], [name |-> Name32, gatewayPort |-> 18920]}

InitCorrupt ==
    /\ registryFile = "corrupt"
    /\ registry = emptyRegistry
    /\ fs \in [DirNames -> {AbsentDir, FullDir}]
    /\ containers \in SUBSET CorruptContainers
    /\ now = 0
    /\ last = Outcome("none", "", TRUE, "", 0, FALSE, 0, 0)
    /\ autoNames = {}
    /\ destroyed = FALSE
    /\ trail = NoTrail
    /\ highWater = 0
    /\ procs = NoProcs

SpecCorrupt == InitCorrupt /\ [][Next]_vars

\* The call recorded in l came to read the Registry.
reads(l) ==
    \/ l.op \in {"list", "get", "start", "stop", "destroy"}
    \/ l.op \in {"validateName", "create"} /\ validateNameReads(l.name)

\* C25: with a registry document that does not parse, every operation that
\* reads the Registry fails with an error, and no operation repairs, resets
\* or overwrites the document: it stays unchanged.
CorruptStep ==
    /\ reads(last') => ~last'.ok /\ last'.error = ErrCorrupt
    /\ UNCHANGED <<registryFile, registry>>

CorruptIsFatal == [][CorruptStep]_vars

\* A create with a well-formed name has failed on the damaged document.
CreateFailedOnCorrupt ==
    /\ registryFile = "corrupt"
    /\ last.op = "create"
    /\ last.name = NameA
    /\ last.error = ErrCorrupt

\* C26: start(name) and stop(name) fail with the not-found error when name
\* is not registered, and whether they succeed or fail they leave instances,
\* nextPortOffset and availableOffsets of the persisted Registry unchanged.
StartStopStep ==
    last'.op \in {"start", "stop"} =>
        /\ last'.name \notin Registered =>
              ~last'.ok /\ last'.error = ErrNotFound
        /\ registry'.instances = registry.instances
        /\ registry'.nextPortOffset = registry.nextPortOffset
        /\ registry'.availableOffsets = registry.availableOffsets

StartStopLookupAndFrame == [][StartStopStep]_vars

\* C29: in every state in which an instance's .env file exists, the
\* intermediate states of create and the state left by a create that was
\* interrupted included, its permissions are owner-only read/write (0600).
EnvOwnerOnly == \A n \in DirNames : fs[n].env \in {"absent", "0600"}

\* C30: every instance returned by create and every instance in the
\* Registry, created with an auto-allocated or an explicit port, has
\* bridgePort = gatewayPort + 1.
AdjacentPorts ==
    /\ \A n \in Registered : instances[n].bridgePort = instances[n].gatewayPort + 1
    /\ last.op = "create" /\ last.ok =>
          instances[last.name].bridgePort = last.gatewayPort + 1

\* One instance with an auto-allocated port and one with an explicit port
\* are registered.
AutoAndExplicitRegistered ==
    /\ Registered = {NameA, Name32}
    /\ Cardinality(autoNames) = 1
    /\ last.op = "create"
    /\ last.ok
    /\ ~last.auto

(***************************************************************************)
(* Two processes in create() over one registry document                    *)
(***************************************************************************)
\* A registration that adds the instance to the document as it is now.
registerWriteMerging(local, current, instance) ==
    writeRegistry(register(current, instance))

\* registry.instances[name] = instance; this.writeRegistry(registry): the
\* document becomes the copy read at line 873 with the instance added.
registerWrite(local, current, instance) ==
    writeRegistry(register(local, instance))

\* An allocation that reads the document again when it comes to write.
allocateFromDocument(local, current, busy) == allocatePort("json", current, busy)

\* The loop of allocatePort() works on the copy read at line 522 and writes
\* that copy at line 551.
allocateFrom(local, current, busy) == allocatePort("json", local, busy)

RacePort == 18920
RaceOptions == {NoPortOption, [hasPort |-> TRUE, port |-> RacePort]}

\* validateName(name), lines 819-822.
BeginCreate(p, name, opt) ==
    /\ procs[p].pc = "idle"
    /\ \E v \in {validateName(name, registryFile, registry)} :
        /\ registryFile' = IF validateNameReads(name) THEN persisted(registryFile)
                           ELSE registryFile
        /\ registry' = IF validateNameReads(name)
                       THEN readRegistry(registryFile, registry) ELSE registry
        /\ procs' = [procs EXCEPT ![p] =
              [@ EXCEPT !.pc = IF v.valid THEN "validated" ELSE "done",
                        !.name = name, !.opt = opt, !.error = v.error]]
    /\ UNCHANGED <<fs, containers, now, last, autoNames, destroyed, trail, highWater>>

\* The custom port branch, lines 827-837.
CheckCustomPort(p, external) ==
    /\ procs[p].pc = "validated"
    /\ portGiven(procs[p].opt)
    /\ \E port \in {procs[p].opt.port} :
        procs' = [procs EXCEPT ![p] =
            IF port < MinCustomPort \/ port > MaxCustomPort
            THEN [@ EXCEPT !.pc = "done", !.error = ErrPortRange]
            ELSE IF ~(/\ isPortAvailable(port, Listening(external))
                      /\ isPortAvailable(port + 1, Listening(external)))
            THEN [@ EXCEPT !.pc = "done", !.error = ErrPortInUse]
            ELSE [@ EXCEPT !.pc = "ported",
                           !.gatewayPort = customPorts(port).gatewayPort,
                           !.bridgePort = customPorts(port).bridgePort]]
    /\ UNCHANGED <<registryFile, registry, fs, containers, now, last, autoNames,
                   destroyed, trail, highWater>>

\* allocatePort(), line 522: the read, up to the first await.
AllocRead(p) ==
    /\ procs[p].pc = "validated"
    /\ ~portGiven(procs[p].opt)
    /\ registryFile' = persisted(registryFile)
    /\ registry' = readRegistry(registryFile, registry)
    /\ procs' = [procs EXCEPT ![p] =
          [@ EXCEPT !.pc = "allocating",
                    !.read = readRegistry(registryFile, registry)]]
    /\ UNCHANGED <<fs, containers, now, last, autoNames, destroyed, trail, highWater>>

\* allocatePort(), lines 525-566: the probes, and the write at line 551.
AllocProbeWrite(p, external) ==
    /\ procs[p].pc = "allocating"
    /\ \E alloc \in {allocateFrom(procs[p].read,
                                  readRegistry(registryFile, registry),
                                  Listening(external))} :
        /\ registry' = IF alloc.outcome = "ok" THEN writeRegistry(alloc.registry)
                       ELSE registry
        /\ procs' = [procs EXCEPT ![p] =
              IF alloc.outcome = "ok"
              THEN [@ EXCEPT !.pc = "ported", !.gatewayPort = alloc.gatewayPort,
                             !.bridgePort = alloc.bridgePort]
              ELSE [@ EXCEPT !.pc = "done",
                             !.error = IF alloc.outcome = "range"
                                       THEN ErrRangeExceeded ELSE ErrExhausted]]
    /\ UNCHANGED <<registryFile, fs, containers, now, last, autoNames, destroyed,
                   trail, highWater>>

\* The instance data and the files, lines 845-870.
WriteFiles(p) ==
    /\ procs[p].pc = "ported"
    /\ fs' = [fs EXCEPT ![procs[p].name] = materialize(@, "none").dir]
    /\ now' = now + 1
    /\ procs' = [procs EXCEPT ![p] = [@ EXCEPT !.pc = "filed", !.createdAt = now]]
    /\ UNCHANGED <<registryFile, registry, containers, last, autoNames, destroyed,
                   trail, highWater>>

\* const registry = this.readRegistry(), line 873.
RegRead(p) ==
    /\ procs[p].pc = "filed"
    /\ registryFile' = persisted(registryFile)
    /\ registry' = readRegistry(registryFile, registry)
    /\ procs' = [procs EXCEPT ![p] =
          [@ EXCEPT !.pc = "registering",
                    !.local = readRegistry(registryFile, registry)]]
    /\ UNCHANGED <<fs, containers, now, last, autoNames, destroyed, trail, highWater>>

\* registry.instances[name] = instance; writeRegistry; return, lines 874-877.
RegWrite(p) ==
    /\ procs[p].pc = "registering"
    /\ \E instance \in {[name |-> procs[p].name,
                         gatewayPort |-> procs[p].gatewayPort,
                         bridgePort |-> procs[p].bridgePort,
                         configDir |-> getInstanceDir(procs[p].name),
                         createdAt |-> procs[p].createdAt]} :
        registry' = registerWrite(procs[p].local,
                                  readRegistry(registryFile, registry), instance)
    /\ procs' = [procs EXCEPT ![p] = [@ EXCEPT !.pc = "done", !.ok = TRUE]]
    /\ autoNames' = IF portGiven(procs[p].opt) THEN autoNames \ {procs[p].name}
                    ELSE autoNames \cup {procs[p].name}
    /\ highWater' = IF Cardinality(DOMAIN registry'.instances) > highWater
                    THEN Cardinality(DOMAIN registry'.instances) ELSE highWater
    /\ UNCHANGED <<registryFile, fs, containers, now, last, destroyed, trail>>

NextRace ==
    \/ \E p \in Procs, name \in DirNames, opt \in RaceOptions : BeginCreate(p, name, opt)
    \/ \E p \in Procs, external \in SUBSET ExternalPorts : CheckCustomPort(p, external)
    \/ \E p \in Procs : AllocRead(p)
    \/ \E p \in Procs, external \in SUBSET ExternalPorts : AllocProbeWrite(p, external)
    \/ \E p \in Procs : WriteFiles(p)
    \/ \E p \in Procs : RegRead(p)
    \/ \E p \in Procs : RegWrite(p)

SpecRace == Init /\ [][NextRace]_vars

\* Both calls of create() have returned an instance.
BothReturned == \A p \in Procs : procs[p].pc = "done" /\ procs[p].ok

RecordKept ==
    \A n \in Registered :
        IF n \in DOMAIN registry'.instances
        THEN registry'.instances[n] = instances[n]
        ELSE last'.op = "destroy" /\ last'.ok /\ last'.name = n

RecordImmutable == [][RecordKept]_vars

\* Another instance was created and destroyed while the first stayed
\* registered.
OtherDestroyedBeside ==
    /\ last.op = "destroy"
    /\ last.ok
    /\ last.name = Name32
    /\ NameA \in Registered
    /\ now = 2

(***************************************************************************)
(* The command create <name> of the CLI                                    *)
(***************************************************************************)
ErrDocker == "Docker is not installed or not running"
ErrBuild == "Docker build failed"

\* docker image inspect openclaw:local succeeds, or fails and the build that
\* follows succeeds or fails.
ImageStates == {"present", "built", "buildFails"}

\* instancesCli.create: checkDocker, manager.create, the image check and
\* build, manager.start; exit is the exit status of the process.
cliCreate(name, opt, fault, dockerOk, image, upOk, file, reg, dir, busy, time, alloc, running, others) ==
    IF ~dockerOk
    THEN [exit |-> 1, error |-> ErrDocker, created |-> FALSE,
          registryFile |-> file, registry |-> reg, dir |-> dir, now |-> time,
          containers |-> running, gatewayPort |-> 0, auto |-> FALSE]
    ELSE
      LET c == create(name, opt, fault, file, reg, dir, busy, time, alloc)
          done == [exit |-> 1, error |-> c.error, created |-> c.ok,
                   registryFile |-> c.registryFile, registry |-> c.registry,
                   dir |-> c.dir, now |-> c.now, containers |-> running,
                   gatewayPort |-> c.gatewayPort, auto |-> c.auto]
      IN  IF ~c.ok THEN done
          ELSE IF image = "buildFails" THEN [done EXCEPT !.error = ErrBuild]
          ELSE
            LET s == start(name, TRUE, upOk, c.registryFile, c.registry, c.dir,
                           running, others)
            IN  [done EXCEPT !.exit = IF s.ok THEN 0 ELSE 1,
                             !.error = s.error,
                             !.containers = s.containers]

CliCreate(name, opt, fault, external, alloc, dockerOk, image, upOk) ==
    \E r \in {cliCreate(name, opt, fault, dockerOk, image, upOk, registryFile,
                        registry, dirOf(name), Listening(external), now, alloc,
                        containers, BoundByOthers(name, external))} :
        /\ registryFile' = r.registryFile
        /\ registry' = r.registry
        /\ fs' = IF name \in DirNames THEN [fs EXCEPT ![name] = r.dir] ELSE fs
        /\ now' = r.now
        /\ containers' = r.containers
        /\ last' = Outcome("cli create", name, r.exit = 0, r.error,
                           r.gatewayPort, r.auto, 0, 0)
        /\ autoNames' = IF r.created /\ r.auto THEN autoNames \cup {name}
                        ELSE autoNames
        /\ highWater' = IF Cardinality(DOMAIN r.registry.instances) > highWater
                        THEN Cardinality(DOMAIN r.registry.instances)
                        ELSE highWater
        /\ trail' = NoTrail
        /\ UNCHANGED <<destroyed, procs>>

NextCli ==
    \/ now < MaxTime /\ \E external \in SUBSET ExternalPorts :
        \E alloc \in {allocatePort(registryFile, registry, Listening(external))} :
            \E name \in CreateNames, opt \in PortOptions :
                \E fault \in FaultsFor(name, opt, Listening(external), alloc) :
                    \E dockerOk \in BOOLEAN, image \in ImageStates, upOk \in BOOLEAN :
                        CliCreate(name, opt, fault, external, alloc, dockerOk,
                                  image, upOk)
    \/ \E name \in LookupNames, keepData \in BOOLEAN, downOk \in BOOLEAN,
          rmOk \in BOOLEAN :
            Destroy(name, keepData, downOk, rmOk)

SpecCli == Init /\ [][NextCli]_vars

\* C32: whenever the CLI command create <name> ends with a non-zero exit,
\* also when the image build or the start of the gateway fails after the
\* manager's create has returned, name is not a key of the Registry. The
\* step is a command whose name was not registered when it began.
FailedCliCreateStep ==
    /\ last'.op = "cli create"
    /\ ~last'.ok
    /\ last'.name \notin Registered
    => last'.name \notin DOMAIN registry'.instances

NoPartialStateAfterCli == [][FailedCliCreateStep]_vars

(***************************************************************************)
(* Port spacing                                                            *)
(***************************************************************************)
\* The last port an instance derives from its gateway port: the end of the
\* CDP range.
PortFootprint == 110

\* The offsets whose port pair is in range.
LastOffset == (MaxPort - 1 - INSTANCES_BASE_PORT) \div INSTANCES_PORT_STEP
\* The gateway port of an offset under the former spacing.
firstPortFormerly(i) == INSTANCES_BASE_PORT + i * FormerPortStep

firstPort(i) == INSTANCES_BASE_PORT + i * INSTANCES_PORT_STEP
lastPort(i) == firstPort(i) + PortFootprint

\* The offsets the Registry names: the watermark, the reclaimed offsets and
\* the offsets of the registered instances.
OffsetsNamed ==
    {i \in 0..LastOffset :
        \/ i = registry.nextPortOffset
        \/ \E k \in 1..Len(pool) : pool[k] = i
        \/ \E n \in Registered : instances[n].gatewayPort = firstPort(i)}

nothingReclaimed(reg) ==
    /\ ~reg.hasAvailableOffsets \/ reg.availableOffsets = <<>>
    /\ reg.nextPortOffset \in Nat

\* The create of the step allocated its ports itself, and the first pair it
\* probed was free.
allocatedAtOnce(outcome) ==
    /\ outcome.op = "create"
    /\ outcome.ok
    /\ outcome.auto
    /\ outcome.attempts = 1

\* The last call was such a create and took the offset below the watermark.
FreshBefore ==
    /\ allocatedAtOnce(last)
    /\ nothingReclaimed(registry)
    /\ last.gatewayPort = firstPort(registry.nextPortOffset - 1)

\* C34: an auto-allocating create whose probes succeed, on a Registry with no
\* reclaimed offset and nextPortOffset = n, returns gatewayPort =
\* BASE_PORT + n * PORT_STEP and leaves nextPortOffset = n + 1 persisted; the
\* second of two such creates in a row returns a port PORT_STEP above the
\* first.
FreshStep ==
    /\ allocatedAtOnce(last')
    /\ nothingReclaimed(readRegistry(registryFile, registry))
    => /\ last'.gatewayPort =
              firstPort(readRegistry(registryFile, registry).nextPortOffset)
       /\ registryFile' = "json"
       /\ registry'.nextPortOffset =
              readRegistry(registryFile, registry).nextPortOffset + 1
       /\ FreshBefore => last'.gatewayPort = last.gatewayPort + INSTANCES_PORT_STEP

FreshAllocation == [][FreshStep]_vars

\* Two fresh creates in a row have been registered.
TwoFreshCreates ==
    /\ FreshBefore
    /\ now = 2
    /\ registry.nextPortOffset = 2
    /\ Registered = {NameA, Name32}
    /\ \E n \in Registered, m \in Registered :
           /\ instances[n].gatewayPort = firstPort(0)
           /\ instances[m].gatewayPort = firstPort(1)
           /\ last.name = m

(***************************************************************************)
(* The order of availableOffsets                                           *)
(***************************************************************************)
\* C35: in every state reached from the empty registry by creates and
\* destroys run one after the other, the persisted availableOffsets is in
\* ascending order, so that its first value, the one the allocator takes, is
\* its least. (An entry read back as null counts as the 0 the comparator and
\* the allocator make of it.)
PoolAscending ==
    /\ \A k \in 1..(Len(pool) - 1) : Num(pool[k]) <= Num(pool[k + 1])
    /\ \A k \in 1..Len(pool) : Num(Head(pool)) <= Num(pool[k])

\* The pool holds a null after the offset 1.
NullAfterOffset ==
    /\ registryFile = "json"
    /\ Len(pool) = 2
    /\ pool[1] = 1
    /\ pool[2] = NullOffset

(***************************************************************************)
(* A destroy that is cut short                                             *)
(***************************************************************************)
\* The step of destroy the process completed last before it died: the
\* lookup, the teardown of the containers, the removal of the directory, the
\* read and edit of the Registry in memory. After the write nothing is left
\* to do.
CrashPoints == {"getInstance", "composeDown", "rmSync", "readRegistry"}

\* A destroy that writes the Registry before it removes the directory.
destroyCrashedUnregisteringFirst(point, name, keepData, downOk, file, reg, dir) ==
    [registry |-> IF point \in {"rmSync", "readRegistry"}
                  THEN writeRegistry(destroyWrites(name, file, reg))
                  ELSE readRegistry(file, reg),
     dir |-> IF point = "readRegistry" THEN removeData(dir, keepData) ELSE dir,
     down |-> point # "getInstance" /\ composeDown(dir, downOk).down]

\* What destroy has done by the time it is cut short after the step point,
\* for a name that passed the lookup: the document is the one the lookup read.
destroyCrashed(point, name, keepData, downOk, file, reg, dir) ==
    [registry |-> readRegistry(file, reg),
     dir |-> IF point \in {"rmSync", "readRegistry"}
             THEN removeData(dir, keepData) ELSE dir,
     down |-> point # "getInstance" /\ composeDown(dir, downOk).down]

DestroyCrashed(point, name, keepData, downOk) ==
    /\ parses(registryFile)
    /\ Truthy(name, readRegistry(registryFile, registry).instances)
    /\ \E r \in {destroyCrashed(point, name, keepData, downOk, registryFile,
                                registry, dirOf(name))} :
        /\ registryFile' = persisted(registryFile)
        /\ registry' = r.registry
        /\ fs' = IF name \in DirNames THEN [fs EXCEPT ![name] = r.dir] ELSE fs
        /\ containers' = IF r.down THEN {c \in containers : c.name # name}
                         ELSE containers
        /\ last' = [Outcome("destroy crashed", name, FALSE, "", 0, FALSE, 0, 0)
                    EXCEPT !.keepData = keepData, !.down = r.down]
        /\ trail' = NoTrail
        /\ UNCHANGED <<now, autoNames, destroyed, highWater, procs>>

NextCrash ==
    \/ now < MaxTime /\ \E external \in SUBSET ExternalPorts :
        \E alloc \in {allocatePort(registryFile, registry, Listening(external))} :
            \E name \in DirNames, opt \in PortOptions :
                \E fault \in FaultsFor(name, opt, Listening(external), alloc) :
                    Create(name, opt, fault, Listening(external), alloc)
    \/ \E name \in DirNames, upOk \in BOOLEAN : Start(name, TRUE, upOk, {})
    \/ \E name \in LookupNames, keepData \in BOOLEAN, downOk \in BOOLEAN,
          rmOk \in BOOLEAN :
            Destroy(name, keepData, downOk, rmOk)
    \/ \E point \in CrashPoints, name \in LookupNames, keepData \in BOOLEAN,
          downOk \in BOOLEAN :
            DestroyCrashed(point, name, keepData, downOk)

SpecCrash == Init /\ [][NextCrash]_vars

\* The directory of name is there and name is no key of the Registry.
orphaned(name, reg, dir) == dirExists(dir) /\ name \notin DOMAIN reg.instances

\* C36 as stated: a crash between the steps of a destroy without keepData
\* can leave an orphaned directory: for a registered instance that has its
\* directory, there is a step after which the crash leaves the directory
\* there and the name out of the Registry.
CrashCanOrphan ==
    \A n \in Registered \cap DirNames :
        dirExists(fs[n]) =>
            \E point \in CrashPoints, downOk \in BOOLEAN :
                \E r \in {destroyCrashed(point, n, FALSE, downOk, registryFile,
                                          registry, fs[n])} :
                    orphaned(n, r.registry, r.dir)

\* C36: a crash between the steps of a destroy without keepData of a
\* registered instance leaves the Registry as it was, the name in it, with
\* the directory as it was or, once the removal has run, without it: it can
\* leave a record whose directory is gone, never an orphaned directory.
CrashStep ==
    /\ last'.op = "destroy crashed"
    /\ ~last'.keepData
    /\ last'.name \in Registered
    => /\ registry' = registry
       /\ last'.name \in DirNames =>
              /\ fs'[last'.name] \in {fs[last'.name], AbsentDir}
              /\ ~orphaned(last'.name, registry', fs'[last'.name])

CrashKeepsRecord == [][CrashStep]_vars

\* A crashed destroy without keepData has left a record without directory.
RecordWithoutDirectory ==
    /\ last.op = "destroy crashed"
    /\ ~last.keepData
    /\ last.name \in Registered \cap DirNames
    /\ fs[last.name] = AbsentDir

(***************************************************************************)
(* Auto-allocating creates, failing ones included, and destroys            *)
(***************************************************************************)
NextLeak ==
    \/ now < MaxTime /\ \E external \in SUBSET ExternalPorts :
        \E alloc \in {allocatePort(registryFile, registry, Listening(external))} :
            \E name \in DirNames :
                \E fault \in FaultsFor(name, NoPortOption, Listening(external), alloc) :
                    Create(name, NoPortOption, fault, Listening(external), alloc)
    \/ \E name \in DirNames, keepData \in BOOLEAN, downOk \in BOOLEAN :
            Destroy(name, keepData, downOk, TRUE)

SpecLeak == Init /\ [][NextLeak]_vars

\* C37: no offset is leaked. After any sequence of auto-allocating creates
\* and destroys run one after the other, creates that fail after the port
\* allocation included, every offset in 0..nextPortOffset-1 is the offset of
\* a registered instance or a member of availableOffsets.
NoOffsetLeaked ==
    \A o \in 0..(registry.nextPortOffset - 1) :
        \/ \E n \in Registered : portOffsetOf(n, instances) = o
        \/ \E k \in 1..Len(pool) : pool[k] = o

\* A create has failed in its files and the offset it took is nowhere.
OffsetLeaked ==
    /\ last.op = "create"
    /\ last.error = ErrFilesystem
    /\ registry.nextPortOffset = 1
    /\ Registered = {}
    /\ pool = <<>>

(***************************************************************************)
(* Explicit ports below the base port                                      *)
(***************************************************************************)
\* No port, or a port the range check accepts that lies below BASE_PORT.
LowPortOptions == {NoPortOption, [hasPort |-> TRUE, port |-> 1100]}

NextLow ==
    \/ now < MaxTime /\ \E external \in SUBSET ExternalPorts :
        \E alloc \in {allocatePort(registryFile, registry, Listening(external))} :
            \E name \in DirNames, opt \in LowPortOptions :
                \E fault \in FaultsFor(name, opt, Listening(external), alloc) :
                    Create(name, opt, fault, Listening(external), alloc)
    \/ \E name \in DirNames, keepData \in BOOLEAN, downOk \in BOOLEAN :
            Destroy(name, keepData, downOk, TRUE)

SpecLow == Init /\ [][NextLow]_vars

\* C38: after any sequence of creates (auto-allocated or with an explicit
\* port) and destroys run one after the other, the port pair an
\* auto-allocating create returns comes from an integer offset k >= 0:
\* gatewayPort = BASE_PORT + k * PORT_STEP, so BASE_PORT <= gatewayPort and
\* bridgePort <= 65535.
AutoPortsFromOffsets ==
    last.op = "create" /\ last.ok /\ last.auto =>
        /\ \E k \in 0..LastOffset : last.gatewayPort = firstPort(k)
        /\ INSTANCES_BASE_PORT <= last.gatewayPort
        /\ last.gatewayPort + 1 <= MaxPort

\* An auto-allocating create has returned a port below BASE_PORT.
AutoPortBelowBase ==
    /\ last.op = "create"
    /\ last.ok
    /\ last.auto
    /\ last.gatewayPort = 1040
    /\ last.name \in Registered
    /\ instances[last.name].bridgePort = 1041

(***************************************************************************)
(* A failed allocation                                                     *)
(***************************************************************************)
\* C39: when the allocator fails, with AllocationExhausted or with the range
\* error, the persisted Registry is the one from before the call: neither
\* the increments of the watermark nor the offsets put back during the
\* failed attempts are persisted.
FailedAllocationStep ==
    /\ last'.op = "create"
    /\ last'.attempts > 0
    /\ last'.error \in {ErrExhausted, ErrRangeExceeded}
    => /\ registryFile' = registryFile
       /\ registry' = registry

FailedAllocationPersistsNothing == [][FailedAllocationStep]_vars

\* The allocator gave up on the one offset it took from the watermark and
\* put back, and the Registry has neither.
GaveUpOnWatermark ==
    /\ last.op = "create"
    /\ last.error = ErrExhausted
    /\ last.attempts = maxAttempts
    /\ last.tried = 1
    /\ registry.nextPortOffset = 0
    /\ pool = <<>>

====
